---- MODULE Spec2Model ----
(***************************************************************************)
(* The real-time transcription session engine of fire-flies-clone:         *)
(*   RecordingService            (services/recordingService.ts)            *)
(*   AssemblyAIStreamingService  (services/assemblyAiStreaming.ts)         *)
(* One client connection on /ws/recording is one session.  Every action    *)
(* below is one callback of the Node event loop, run to completion         *)
(* together with the promise continuations it releases.                    *)
(* The file-upload path (routes/api.ts, services/transcription.ts,         *)
(* services/assemblyAiTranscription.ts) is modelled one await at a time.   *)
(***************************************************************************)
EXTENDS Integers, Sequences, FiniteSets, TLC

\* ------------------------------------------------------------------ bounds
MaxBlocks == 2        \* final Turn events appended to one transcript
MaxChunks == 2        \* audio frames retained between two start_recording
MaxWire == 2          \* binary frames written to one provider transport
MaxB64Len == 3        \* characters of an audio_chunk payload string
MaxTurnOrder == 1     \* turn_order values 0..MaxTurnOrder
MaxWords == 1         \* words attached to one Turn event
MaxNotices == 1       \* error messages to one client
MaxWarnings == 2      \* warning messages to one client
MaxTurnMsgs == 2      \* transcription messages to one client
MaxCtl == 1           \* ForceEndpoint messages written to one transport
MaxSpeakers == 17     \* provider speaker ids of the many-speaker meeting
MaxSpeakerTurns == 18 \* transcription messages of the many-speaker meeting
MaxTurnWords == 3     \* words of one Turn event of the diarized meeting
MaxScoredWords == 3   \* words of one Turn event of the scored meeting
MaxUploads == 3       \* calls of transcribeAudioWithSpeakers that ended
MaxRecordingTurns == 4 \* transcription messages of the paused meeting
MaxMeetings == 2      \* files uploaded through POST /api/upload

\* const maxAttempts = 120
maxAttempts == 120

\* if (!words || words.length === 0) return 0.8, in hundredths
DefaultConfidence == 80

\* --------------------------------------------------------------- universes
AllSessions == {"s1", "s2"}
Sessions == {"s1"}

NoId == ""             \* a word without speaker (word.speaker is falsy)
NoSpeaker == <<>>      \* chunk.speaker is undefined
NoConfidence == <<>>   \* typeof word.confidence is not 'number'
ProviderSpeakers == {"1", "2"}
Texts == {"hi"}
Blank == {"", " "}
TurnTexts == {"hi", "yo"}
ManySpeakers == {ToString(i) : i \in 1..MaxSpeakers}

speakerLetters ==
    <<"A", "B", "C", "D", "E", "F", "G", "H",
      "I", "J", "K", "L", "M", "N", "O", "P">>

CountedTypes == {"ready", "error", "warning", "info", "transcription"}
CtlTypes == {"Terminate", "ForceEndpoint"}

VARIABLES
    apiKey,          \* process.env.ASSEMBLYAI_API_KEY is set
    crashed,         \* the Node process died of an uncaught exception
    unhandled,       \* kinds of unhandled rejection / error event seen
    conn,            \* client socket: none, open, closedByServer,
                     \*   closedByClient, aborted (the process died)
    route,           \* route handler: idle, awaitStart, listening, returned
    sessions,        \* RecordingService.sessions (the registry's keys)
    isRecording,     \* session.isRecording
    fullTranscript,  \* session.fullTranscript, as the sequence of its pieces
    audioChunks,     \* session.audioChunks, as the byte lengths retained
    chunkCounter,    \* session.chunkCounter
    clientLog,       \* per counted type, messages delivered to the client
    token,           \* the token fetch: none, pending, granted, rejected
    connect,         \* the promise startRealTimeTranscription returns:
                     \*   none, pending, resolved, rejected
    timer,           \* the 10 s timer: unset, armed, fired
    ws,              \* provider transport: none, connecting, open, closing, closed
    websocket,       \* service.websocket is not null
    isConnected,     \* service.isConnected
    sessionStarted,  \* service.sessionStarted
    speakerMapping,  \* service.speakerMapping, its keys in insertion order
    currentTurnText, \* service.currentTurnText
    wireAudio,       \* binary frames written to the provider transport
    wireCtl,         \* control messages written to the provider transport
    begun,           \* history: a Begin message arrived on the transport
    terminated,      \* history: a Termination message arrived
    started,         \* history: a start_recording was handled
    pauseState,      \* history of pause/resume: never; paused (pause handled,
                     \*   no resume or start since); pausedThenStarted (pause,
                     \*   then start, no resume since); resumed (resume was
                     \*   the last command that set the recording flag)
    last,            \* history: what the session's latest step handled
                     \*   (NoFrame when none of these).  An audio_chunk:
                     \*   the payload's class, whether the provider
                     \*   connection was open and acknowledged, whether a
                     \*   frame was written to the transport, whether the
                     \*   connect attempt of another session was pending.
                     \*   A Turn event: partial or final, its transcript
                     \*   text, the transcription message the client took.
                     \*   A direct call of a method of the provider client:
                     \*   the method
    upload,          \* TranscriptionService.transcribeAudioWithSpeakers:
                     \*   where the call in progress stands, and the
                     \*   outcomes of the calls that ended
    meetings,        \* the rows of the meetings table: status, and whether
                     \*   a transcriptions row and an ai_notes row point at it
    processing,      \* POST /api/upload and processAudioFile of each
                     \*   meeting: the await the call is suspended at
    poll             \* pollForCompletion: where the one call stands, its
                     \*   loop counter, the polls sent and what they said

vars == <<apiKey, crashed, unhandled, conn, route, sessions, isRecording,
          fullTranscript, audioChunks, chunkCounter, clientLog,
          connect, timer, ws, websocket, isConnected, sessionStarted,
          speakerMapping, currentTurnText, wireAudio, wireCtl,
          token, begun, terminated, started, pauseState, last, upload,
          meetings, processing, poll>>

clientVars == <<conn, route, sessions, clientLog>>
sessionVars == <<isRecording, fullTranscript, audioChunks, chunkCounter>>
serviceVars == <<token, connect, timer, ws, websocket, isConnected, sessionStarted,
                 speakerMapping, currentTurnText>>
wireVars == <<wireAudio, wireCtl>>
historyVars == <<begun, terminated, started, pauseState>>
processVars == <<apiKey, crashed, unhandled>>
streamingVars == <<clientVars, sessionVars, serviceVars, wireVars,
                   historyVars, processVars, last>>
pipelineVars == <<meetings, processing, poll>>

MeetingIds == 1..MaxMeetings

\* ---------------------------------------------------------------- helpers
\* connection.send(JSON.stringify(m)): delivered while the client socket is
\* open, dropped by the socket otherwise.
Delivered(log, c, m) ==
    IF c = "open" /\ m.type \in CountedTypes
    THEN [log EXCEPT ![m.type] = @ + 1]
    ELSE log

\* No message reached the client in this step.
NoMsg ==
    [type |-> "none", text |-> "", fullTranscript |-> <<>>,
     speaker |-> NoSpeaker, isFinal |-> FALSE, turnOrder |-> 0,
     confidence |-> [num |-> 0, den |-> 1]]

NoFrame == [frame |-> "none", ready |-> FALSE, wrote |-> FALSE,
            turn |-> "none", text |-> "", sent |-> NoMsg, call |-> "none",
            waiting |-> FALSE]

\* The step of session s handled o; a step of the streaming path leaves the
\* file-upload path alone.
Did(s, o) ==
    /\ last' = [last EXCEPT ![s] = o]
    /\ UNCHANGED <<upload, pipelineVars>>

Init ==
    /\ apiKey \in BOOLEAN
    /\ crashed = FALSE
    /\ unhandled = {}
    /\ conn = [s \in AllSessions |-> "none"]
    /\ route = [s \in AllSessions |-> "idle"]
    /\ sessions = {}
    /\ isRecording = [s \in AllSessions |-> FALSE]
    /\ fullTranscript = [s \in AllSessions |-> <<>>]
    /\ audioChunks = [s \in AllSessions |-> <<>>]
    /\ chunkCounter = [s \in AllSessions |-> 0]
    /\ clientLog = [s \in AllSessions |-> [t \in CountedTypes |-> 0]]
    /\ connect = [s \in AllSessions |-> "none"]
    /\ timer = [s \in AllSessions |-> "unset"]
    /\ ws = [s \in AllSessions |-> "none"]
    /\ websocket = [s \in AllSessions |-> FALSE]
    /\ isConnected = [s \in AllSessions |-> FALSE]
    /\ sessionStarted = [s \in AllSessions |-> FALSE]
    /\ speakerMapping = [s \in AllSessions |-> <<>>]
    /\ currentTurnText = [s \in AllSessions |-> ""]
    /\ wireAudio = [s \in AllSessions |-> 0]
    /\ wireCtl = [s \in AllSessions |-> [c \in CtlTypes |-> 0]]
    /\ token = [s \in AllSessions |-> "none"]
    /\ begun = [s \in AllSessions |-> FALSE]
    /\ terminated = [s \in AllSessions |-> FALSE]
    /\ started = [s \in AllSessions |-> FALSE]
    /\ pauseState = [s \in AllSessions |-> "never"]
    /\ last = [s \in AllSessions |-> NoFrame]
    /\ upload = [pc |-> "idle", results |-> <<>>]
    /\ meetings = [m \in MeetingIds |->
                     [status |-> "none", transcription |-> FALSE,
                      aiNotes |-> FALSE]]
    /\ processing = [m \in MeetingIds |-> "none"]
    /\ poll = [pc |-> "idle", attempt |-> 0, polls |-> 0, pending |-> 0,
               status |-> "none", outcome |-> "none"]

\* An exception nothing catches ends the Node process (node 20, no
\* uncaughtException / unhandledRejection handler is installed): the OS
\* tears every client socket down.
Crash(kind) ==
    /\ crashed' = TRUE
    /\ unhandled' = unhandled \cup {kind}
    /\ conn' = [s \in AllSessions |->
                  IF conn[s] = "open" THEN "aborted" ELSE conn[s]]

\* ------------------------------------------------- connection establishment
\* ClientConnect whose no-key branch sends the error and returns without
\* closing the connection.
ClientConnect_NoClose(s) ==
    /\ ~crashed
    /\ conn[s] = "none"
    /\ route[s] = "idle"
    /\ conn' = [conn EXCEPT ![s] = "open"]
    /\ IF ~apiKey
       THEN /\ clientLog' = [clientLog EXCEPT
                               ![s] = Delivered(@, "open", [type |-> "error"])]
            /\ route' = [route EXCEPT ![s] = "returned"]
            /\ UNCHANGED <<token, connect>>
       ELSE /\ route' = [route EXCEPT ![s] = "awaitStart"]
            /\ token' = [token EXCEPT ![s] = "pending"]
            /\ connect' = [connect EXCEPT ![s] = "pending"]
            /\ UNCHANGED clientLog
    /\ Did(s, NoFrame)
    /\ UNCHANGED <<sessions, sessionVars, timer, ws, websocket, isConnected,
                   sessionStarted, speakerMapping, currentTurnText, wireVars,
                   historyVars, processVars>>

\* fastify.get('/ws/recording') up to its first suspension.
ClientConnect(s) ==
    /\ ~crashed
    /\ conn[s] = "none"
    /\ route[s] = "idle"
    /\ IF ~apiKey
       THEN \* no key: one error, close, return
            /\ conn' = [conn EXCEPT ![s] = "closedByServer"]
            /\ clientLog' = [clientLog EXCEPT
                               ![s] = Delivered(@, "open", [type |-> "error"])]
            /\ route' = [route EXCEPT ![s] = "returned"]
            /\ UNCHANGED <<token, connect>>
       ELSE \* new AssemblyAIStreamingService; startRealTimeTranscription
            \* runs up to the await of the token fetch
            /\ conn' = [conn EXCEPT ![s] = "open"]
            /\ route' = [route EXCEPT ![s] = "awaitStart"]
            /\ token' = [token EXCEPT ![s] = "pending"]
            /\ connect' = [connect EXCEPT ![s] = "pending"]
            /\ UNCHANGED clientLog
    /\ Did(s, NoFrame)
    /\ UNCHANGED <<sessions, sessionVars, timer, ws, websocket, isConnected,
                   sessionStarted, speakerMapping, currentTurnText, wireVars,
                   historyVars, processVars>>

\* The token fetch answers 2xx: the executor opens the transport, attaches
\* its four listeners and arms the 10 s timer.
TokenGranted(s) ==
    /\ ~crashed
    /\ token[s] = "pending"
    /\ token' = [token EXCEPT ![s] = "granted"]
    /\ websocket' = [websocket EXCEPT ![s] = TRUE]
    /\ ws' = [ws EXCEPT ![s] = "connecting"]
    /\ timer' = [timer EXCEPT ![s] = "armed"]
    /\ Did(s, NoFrame)
    /\ UNCHANGED <<clientVars, sessionVars, connect, isConnected, sessionStarted,
                   speakerMapping, currentTurnText, wireVars, historyVars,
                   processVars>>

\* The token fetch is rejected (non-2xx, or the fetch itself fails):
\* getTemporaryToken throws inside the async executor of the promise.  The
\* executor's own promise rejects with no handler; the promise returned by
\* startRealTimeTranscription is never settled and no timer was armed.
TokenRejected(s) ==
    /\ ~crashed
    /\ token[s] = "pending"
    /\ token' = [token EXCEPT ![s] = "rejected"]
    /\ Crash("unhandledRejection")
    /\ Did(s, NoFrame)
    /\ UNCHANGED <<apiKey, route, sessions, clientLog, sessionVars, connect,
                   timer, ws, websocket, isConnected, sessionStarted,
                   speakerMapping, currentTurnText, wireVars, historyVars>>

\* RegisterSession that does not send ready.
RegisterSession_NoReady(s) ==
    /\ sessions' = sessions \cup {s}
    /\ isRecording' = [isRecording EXCEPT ![s] = FALSE]
    /\ fullTranscript' = [fullTranscript EXCEPT ![s] = <<>>]
    /\ audioChunks' = [audioChunks EXCEPT ![s] = <<>>]
    /\ chunkCounter' = [chunkCounter EXCEPT ![s] = 0]
    /\ route' = [route EXCEPT ![s] = "listening"]
    /\ UNCHANGED clientLog

\* Lines 76-196 of the route handler: the continuation of a successful
\* await.  The session object is built and registered, the service and
\* connection listeners are attached, ready is sent.
RegisterSession(s) ==
    /\ sessions' = sessions \cup {s}
    /\ isRecording' = [isRecording EXCEPT ![s] = FALSE]
    /\ fullTranscript' = [fullTranscript EXCEPT ![s] = <<>>]
    /\ audioChunks' = [audioChunks EXCEPT ![s] = <<>>]
    /\ chunkCounter' = [chunkCounter EXCEPT ![s] = 0]
    /\ route' = [route EXCEPT ![s] = "listening"]
    /\ clientLog' = [clientLog EXCEPT
                       ![s] = Delivered(@, conn[s], [type |-> "ready"])]

\* Lines 56-74 of the route handler: the await threw (or gave false).
ConnectFailed(s) ==
    /\ clientLog' = [clientLog EXCEPT
                       ![s] = Delivered(@, conn[s], [type |-> "error"])]
    /\ conn' = [conn EXCEPT
                  ![s] = IF @ = "open" THEN "closedByServer" ELSE @]
    /\ route' = [route EXCEPT ![s] = "returned"]
    /\ UNCHANGED <<sessions, sessionVars>>

\* websocket.on('open'): isConnected, emit('connected'), resolve(true).
\* The service has no 'connected' listener yet when the promise is still
\* pending: they are attached by the continuation that resolve releases.
WsOpen(s) ==
    /\ ~crashed
    /\ ws[s] = "connecting"
    /\ ws' = [ws EXCEPT ![s] = "open"]
    /\ isConnected' = [isConnected EXCEPT ![s] = TRUE]
    /\ Did(s, NoFrame)
    /\ IF connect[s] = "pending"
       THEN /\ connect' = [connect EXCEPT ![s] = "resolved"]
            /\ RegisterSession(s)
            /\ UNCHANGED conn
       ELSE \* the promise was settled by the timer: resolve does nothing
            /\ UNCHANGED <<connect, clientVars, sessionVars>>
    /\ UNCHANGED <<token, timer, websocket, sessionStarted, speakerMapping,
                   currentTurnText, wireVars, historyVars, processVars>>

\* The 10 s timer: rejects when isConnected is false at that moment.
TimerFires(s) ==
    /\ ~crashed
    /\ timer[s] = "armed"
    /\ timer' = [timer EXCEPT ![s] = "fired"]
    /\ Did(s, NoFrame)
    /\ IF ~isConnected[s] /\ connect[s] = "pending"
       THEN /\ connect' = [connect EXCEPT ![s] = "rejected"]
            /\ ConnectFailed(s)
       ELSE /\ UNCHANGED <<connect, clientVars, sessionVars>>
    /\ UNCHANGED <<token, ws, websocket, isConnected, sessionStarted,
                   speakerMapping, currentTurnText, wireVars, historyVars,
                   processVars>>

\* ------------------------------------------------------ Turn events (pure)
\* A word of a Turn event: its speaker id (or none) and its confidence in
\* hundredths, <<c>> when the word carries a number and <<>> when it does not.
WordLists ==
    UNION {[1..n -> [speaker : ProviderSpeakers \cup {NoId},
                     confidence : {NoConfidence}]] : n \in 0..MaxWords}

TurnMessages ==
    [transcript : Texts \cup Blank, words : WordLists,
     end_of_turn : BOOLEAN, turn_order : 0..MaxTurnOrder]

\* The Turn events of the session-lifecycle specification: a finished turn
\* without diarization.
LightTurns ==
    {m \in TurnMessages :
        /\ m.words = <<>>
        /\ m.turn_order = 0
        /\ m.transcript \notin Blank
        /\ m.end_of_turn}

\* message.words.filter(word => word.speaker)
wordsWithSpeaker(words) == SelectSeq(words, LAMBDA w : w.speaker # NoId)

\* The speakerCounts Map after the forEach over wordsWithSpeaker: its
\* entries in insertion order.
RECURSIVE speakerCounts(_)
speakerCounts(wl) ==
    IF wl = <<>>
    THEN <<>>
    ELSE LET prev == speakerCounts(SubSeq(wl, 1, Len(wl) - 1))
             k == wl[Len(wl)].speaker
         IN  IF \E i \in 1..Len(prev) : prev[i].id = k
             THEN [i \in 1..Len(prev) |->
                     IF prev[i].id = k
                     THEN [prev[i] EXCEPT !.count = @ + 1]
                     ELSE prev[i]]
             ELSE Append(prev, [id |-> k, count |-> 1])

\* entries.sort(([,a], [,b]) => b - a): descending by count; the sort of
\* V8 is stable, entries of equal count keep their insertion order.
RECURSIVE sortByCount(_)
sortByCount(entries) ==
    IF entries = <<>>
    THEN <<>>
    ELSE LET init == sortByCount(SubSeq(entries, 1, Len(entries) - 1))
             e == entries[Len(entries)]
             n == Cardinality({i \in 1..Len(init) : init[i].count >= e.count})
         IN  SubSeq(init, 1, n) \o <<e>> \o SubSeq(init, n + 1, Len(init))

\* mostCommonSpeaker that takes the first entry of the Map, unsorted.
mostCommonSpeaker_Unsorted(wl) == speakerCounts(wl)[1].id

\* Array.from(speakerCounts.entries()).sort(([,a],[,b]) => b - a)[0][0]
mostCommonSpeaker(wl) == sortByCount(speakerCounts(wl))[1].id

IndexOf(seq, x) == CHOOSE i \in 1..Len(seq) : seq[i] = x

\* mapSpeakerToLetter, the mapping it leaves ...
MappingAfter(mapping, id) ==
    IF \E i \in 1..Len(mapping) : mapping[i] = id
    THEN mapping
    ELSE Append(mapping, id)

\* mapSpeakerToLetter that starts over at "A" past the end of the alphabet.
mapSpeakerToLetter_Wrap(mapping, id) ==
    LET i == IndexOf(MappingAfter(mapping, id), id)
    IN  <<speakerLetters[((i - 1) % Len(speakerLetters)) + 1]>>

\* mapSpeakerToLetter whose index counts the speakers of every session.
mapSpeakerToLetter_SharedCount(mapping, id) ==
    LET i == IF \E j \in 1..Len(mapping) : mapping[j] = id
             THEN IndexOf(mapping, id)
             ELSE Len(speakerMapping["s1"]) + Len(speakerMapping["s2"]) + 1
    IN  IF i <= Len(speakerLetters)
        THEN <<speakerLetters[i]>>
        ELSE <<"Speaker", i>>

\* ... and the label it returns: the letter at the id's insertion index, or
\* `Speaker${index + 1}` past the end of the alphabet.
mapSpeakerToLetter(mapping, id) ==
    LET i == IndexOf(MappingAfter(mapping, id), id)
    IN  IF i <= Len(speakerLetters)
        THEN <<speakerLetters[i]>>
        ELSE <<"Speaker", i>>

\* The speaker-detection block of handleTurnMessage: `Speaker ${letter}`, or
\* undefined when no word carries a speaker.
speakerLabel(mapping, words) ==
    IF wordsWithSpeaker(words) = <<>>
    THEN NoSpeaker
    ELSE <<"Speaker ">> \o
         mapSpeakerToLetter(mapping, mostCommonSpeaker(wordsWithSpeaker(words)))

MappingAfterTurn(mapping, words) ==
    IF wordsWithSpeaker(words) = <<>>
    THEN mapping
    ELSE MappingAfter(mapping, mostCommonSpeaker(wordsWithSpeaker(words)))

\* confidences.reduce((sum, conf) => sum + conf, 0)
RECURSIVE reduceSum(_)
reduceSum(confidences) ==
    IF confidences = <<>>
    THEN 0
    ELSE reduceSum(SubSeq(confidences, 1, Len(confidences) - 1))
           + confidences[Len(confidences)]

\* words.map(word => word.confidence).filter(conf => typeof conf === 'number')
numericConfidences(words) ==
    LET kept == SelectSeq(words, LAMBDA w : w.confidence # NoConfidence)
    IN  [i \in 1..Len(kept) |-> kept[i].confidence[1]]

\* calculateAverageConfidence that divides by the number of words.
calculateAverageConfidence_PerWord(words) ==
    IF words = <<>> \/ numericConfidences(words) = <<>>
    THEN [num |-> DefaultConfidence, den |-> 1]
    ELSE [num |-> reduceSum(numericConfidences(words)), den |-> Len(words)]

\* calculateAverageConfidence: the quotient sum / count in hundredths, kept
\* as the fraction num / den.
calculateAverageConfidence(words) ==
    IF words = <<>>
    THEN [num |-> DefaultConfidence, den |-> 1]
    ELSE LET confidences == numericConfidences(words)
         IN  IF confidences = <<>>
             THEN [num |-> DefaultConfidence, den |-> 1]
             ELSE [num |-> reduceSum(confidences), den |-> Len(confidences)]

\* The StreamingTranscriptionChunk handleTurnMessage builds.
ChunkOf(mapping, m) ==
    [text |-> m.transcript,
     speaker |-> speakerLabel(mapping, m.words),
     isFinal |-> m.end_of_turn,
     turnOrder |-> m.turn_order,
     confidence |-> calculateAverageConfidence(m.words)]

\* currentTurnText that a final Turn event does not clear.
CurrentTurnTextAfter_NeverClears(current, chunk) ==
    IF chunk.isFinal THEN current ELSE chunk.text

\* currentTurnText that keeps a partial text it already holds.
CurrentTurnTextAfter_KeepsFirst(current, chunk) ==
    IF chunk.isFinal THEN "" ELSE IF current = "" THEN chunk.text ELSE current

\* currentTurnText after handleTurnMessage: the partial text, or '' after a
\* final one.
CurrentTurnTextAfter(current, chunk) ==
    IF chunk.isFinal THEN "" ELSE chunk.text

\* TranscriptAfter of a listener that appends every chunk, partial or final.
TranscriptAfter_AppendsPartials(transcript, chunk) ==
    Append(transcript, [speaker |-> chunk.speaker, text |-> chunk.text,
                        turnOrder |-> chunk.turnOrder])

\* The transcript after the 'transcription' listener has handled chunk.  A
\* piece is the speaker block (or the bare text) the listener concatenates;
\* turnOrder records the Turn event a piece came from.
TranscriptAfter(transcript, chunk) ==
    IF chunk.isFinal
    THEN Append(transcript, [speaker |-> chunk.speaker, text |-> chunk.text,
                             turnOrder |-> chunk.turnOrder])
    ELSE transcript

\* TranscriptionMsg built before the listener appended the block.
TranscriptionMsg_BeforeAppend(transcript, chunk) ==
    [type |-> "transcription", text |-> chunk.text,
     fullTranscript |-> IF chunk.isFinal
                        THEN SubSeq(transcript, 1, Len(transcript) - 1)
                        ELSE transcript,
     speaker |-> chunk.speaker,
     isFinal |-> chunk.isFinal, turnOrder |-> chunk.turnOrder,
     confidence |-> chunk.confidence]

\* The 'transcription' message the listener sends: the chunk and the
\* transcript as it stands after the listener appended to it.
TranscriptionMsg(transcript, chunk) ==
    [type |-> "transcription", text |-> chunk.text,
     fullTranscript |-> transcript, speaker |-> chunk.speaker,
     isFinal |-> chunk.isFinal, turnOrder |-> chunk.turnOrder,
     confidence |-> chunk.confidence]

\* The model's cap on messages of one counted type reaching one client.
CanNotify(s, type) ==
    \/ conn[s] # "open"
    \/ clientLog[s][type] <
         (IF type = "transcription" THEN MaxTurnMsgs
          ELSE IF type = "warning" THEN MaxWarnings
          ELSE MaxNotices)

Notify(s, m) ==
    clientLog' = [clientLog EXCEPT ![s] = Delivered(@, conn[s], m)]

\* ------------------------------------------------------- provider transport
\* websocket.on('message') with a Begin message.
ProviderBegin(s) ==
    /\ ~crashed
    /\ ws[s] \in {"open", "closing"}
    /\ sessionStarted' = [sessionStarted EXCEPT ![s] = TRUE]
    /\ begun' = [begun EXCEPT ![s] = TRUE]
    /\ Did(s, NoFrame)
    /\ UNCHANGED <<clientVars, sessionVars, token, connect, timer, ws,
                   websocket, isConnected, speakerMapping, currentTurnText,
                   wireVars, terminated, started, pauseState, processVars>>

\* websocket.on('message') with a Turn message: handleTurnMessage, then the
\* 'transcription' listener of the route handler when it is attached.  cap
\* bounds the transcription messages that reach the client; last[s].sent is
\* the message the client socket took.
TurnEvent(s, m, cap) ==
    /\ ~crashed
    /\ ws[s] \in {"open", "closing"}
    /\ LET heard == [NoFrame EXCEPT
                       !.turn = IF m.end_of_turn THEN "final" ELSE "partial",
                       !.text = m.transcript]
       IN
       IF m.transcript \in Blank
       THEN /\ UNCHANGED <<speakerMapping, currentTurnText, fullTranscript,
                           clientLog>>
            /\ Did(s, heard)
       ELSE LET chunk == ChunkOf(speakerMapping[s], m)
                after == TranscriptAfter(fullTranscript[s], chunk)
            IN  /\ speakerMapping' =
                     [speakerMapping EXCEPT ![s] = MappingAfterTurn(@, m.words)]
                /\ currentTurnText' =
                     [currentTurnText EXCEPT
                        ![s] = CurrentTurnTextAfter(@, chunk)]
                /\ IF route[s] = "listening"
                   THEN /\ \/ conn[s] # "open"
                           \/ clientLog[s]["transcription"] < cap
                        /\ Len(after) <= MaxBlocks
                        /\ fullTranscript' = [fullTranscript EXCEPT ![s] = after]
                        /\ Notify(s, TranscriptionMsg(after, chunk))
                        /\ Did(s, [heard EXCEPT
                                     !.sent = IF conn[s] = "open"
                                              THEN TranscriptionMsg(after, chunk)
                                              ELSE NoMsg])
                   ELSE /\ UNCHANGED <<fullTranscript, clientLog>>
                        /\ Did(s, heard)
    /\ UNCHANGED <<conn, route, sessions, isRecording, audioChunks,
                   chunkCounter, token, connect, timer, ws, websocket,
                   isConnected, sessionStarted, wireVars, historyVars,
                   processVars>>

ProviderTurn(s, m) == TurnEvent(s, m, MaxTurnMsgs)

\* websocket.on('message') with a Termination message.
ProviderTermination(s) ==
    /\ ~crashed
    /\ ws[s] \in {"open", "closing"}
    /\ isConnected' = [isConnected EXCEPT ![s] = FALSE]
    /\ IF route[s] = "listening"
       THEN CanNotify(s, "warning") /\ Notify(s, [type |-> "warning"])
       ELSE UNCHANGED clientLog
    /\ terminated' = [terminated EXCEPT ![s] = TRUE]
    /\ Did(s, NoFrame)
    /\ UNCHANGED <<conn, route, sessions, sessionVars, token, connect, timer,
                   ws, websocket, sessionStarted, speakerMapping,
                   currentTurnText, wireVars, begun, started, pauseState,
                   processVars>>

\* websocket.on('error'): isConnected = false; emit('error'); reject.  An
\* EventEmitter with no 'error' listener throws from emit: before the route
\* handler has attached its listeners the exception escapes the callback.
WsError(s) ==
    /\ ~crashed
    /\ ws[s] \in {"connecting", "open", "closing"}
    /\ ws' = [ws EXCEPT ![s] = "failed"]
    /\ isConnected' = [isConnected EXCEPT ![s] = FALSE]
    /\ IF route[s] = "listening"
       THEN /\ CanNotify(s, "error")
            /\ Notify(s, [type |-> "error"])
            /\ UNCHANGED <<conn, processVars>>
       ELSE /\ Crash("errorEvent")
            /\ UNCHANGED <<apiKey, clientLog>>
    /\ Did(s, NoFrame)
    /\ UNCHANGED <<route, sessions, sessionVars, token, connect, timer,
                   websocket, sessionStarted, speakerMapping, currentTurnText,
                   wireVars, historyVars>>

\* WsClose that does not emit 'disconnected'.
WsClose_Silent(s) ==
    /\ ~crashed
    /\ ws[s] \in {"open", "closing", "failed"}
    /\ ws' = [ws EXCEPT ![s] = "closed"]
    /\ isConnected' = [isConnected EXCEPT ![s] = FALSE]
    /\ Did(s, NoFrame)
    /\ UNCHANGED <<clientVars, sessionVars, token, connect, timer,
                   websocket, sessionStarted, speakerMapping, currentTurnText,
                   wireVars, historyVars, processVars>>

\* WsClose that opens a new transport when the session is still registered.
WsClose_Reconnect(s) ==
    /\ ~crashed
    /\ ws[s] \in {"open", "closing", "failed"}
    /\ ws' = [ws EXCEPT ![s] = IF s \in sessions THEN "connecting" ELSE "closed"]
    /\ isConnected' = [isConnected EXCEPT ![s] = FALSE]
    /\ IF route[s] = "listening"
       THEN CanNotify(s, "warning") /\ Notify(s, [type |-> "warning"])
       ELSE UNCHANGED clientLog
    /\ Did(s, NoFrame)
    /\ UNCHANGED <<conn, route, sessions, sessionVars, token, connect, timer,
                   websocket, sessionStarted, speakerMapping, currentTurnText,
                   wireVars, historyVars, processVars>>

\* websocket.on('close'): isConnected = false; emit('disconnected').
WsClose(s) ==
    /\ ~crashed
    /\ ws[s] \in {"open", "closing", "failed"}
    /\ ws' = [ws EXCEPT ![s] = "closed"]
    /\ isConnected' = [isConnected EXCEPT ![s] = FALSE]
    /\ IF route[s] = "listening"
       THEN CanNotify(s, "warning") /\ Notify(s, [type |-> "warning"])
       ELSE UNCHANGED clientLog
    /\ Did(s, NoFrame)
    /\ UNCHANGED <<conn, route, sessions, sessionVars, token, connect, timer,
                   websocket, sessionStarted, speakerMapping, currentTurnText,
                   wireVars, historyVars, processVars>>

\* ----------------------------------------------------------- audio payloads
\* data.data of an audio_chunk message: absent, not a string, or a string
\* of base64 characters ("A"), characters outside the alphabet ("!") and
\* trailing padding ("=").
B64Strings ==
    {str \in UNION {[1..n -> {"A", "!", "="}] : n \in 0..MaxB64Len} :
        \A i \in 1..Len(str) :
            str[i] = "=" => \A j \in i..Len(str) : str[j] = "="}

AudioPayloads ==
    {[kind |-> "missing", chars |-> <<>>], [kind |-> "nonstring", chars |-> <<>>]}
    \cup {[kind |-> "string", chars |-> str] : str \in B64Strings}

\* Buffer.from(audioData, 'base64').length: the decoder skips what is not in
\* the alphabet and yields six bits per character that is.
DecodedLength(str) ==
    (3 * Cardinality({i \in 1..Len(str) : str[i] = "A"})) \div 4

\* The class of a payload under the checks of processAudioChunk: invalid
\* (absent, not a string, or the empty string), or the decoded buffer's
\* length: zero, odd, even.
FrameClass(payload) ==
    IF payload.kind # "string" \/ Len(payload.chars) = 0 THEN "invalid"
    ELSE IF DecodedLength(payload.chars) = 0 THEN "zero"
    ELSE IF DecodedLength(payload.chars) % 2 # 0 THEN "odd"
    ELSE "even"

\* AcceptsFrame without the isRecording check.
AcceptsFrame_NoRecordingCheck(recording, payload) ==
    FrameClass(payload) = "even"

\* AcceptsFrame without the even-length check.
AcceptsFrame_NoParityCheck(recording, payload) ==
    recording /\ FrameClass(payload) \in {"odd", "even"}

\* The validation of processAudioChunk: TRUE when the frame is pushed and
\* handed to sendAudioChunk.
AcceptsFrame(recording, payload) ==
    recording /\ FrameClass(payload) = "even"

\* sendAudioChunk's guard without the sessionStarted test.
sendAudioChunkReady_NoBegin(w, c, b) == w /\ c

\* The guard of sendAudioChunk: TRUE when websocket.send(audioBuffer) runs.
sendAudioChunkReady(w, c, b) == w /\ c /\ b

\* forceEndOfTurn's guard without the isConnected test.
forceEndOfTurnReady_NoConnectedTest(w, c) == w

\* The guard of the service's forceEndOfTurn.
forceEndOfTurnReady(w, c) == w /\ c

\* ---------------------------------------------------------- client commands
\* Receives of a server that handles no message while the connect attempt of
\* any session is outstanding.
Receives_OneHandshakeAtATime(s) ==
    /\ ~crashed /\ conn[s] = "open" /\ route[s] = "listening"
    /\ \A o \in AllSessions : connect[o] # "pending"

\* connection.on('message') is attached and the client socket is open.
Receives(s) == ~crashed /\ conn[s] = "open" /\ route[s] = "listening"

\* A message sent while the route handler is still suspended in its await:
\* no 'message' listener is attached yet, nothing handles it.
UnheardMessage(s) ==
    /\ ~crashed
    /\ conn[s] = "open"
    /\ route[s] = "awaitStart"
    /\ Did(s, NoFrame)
    /\ UNCHANGED <<clientVars, sessionVars, serviceVars, wireVars,
                   historyVars, processVars>>

\* JSON.parse throws, or yields null: the catch sends 'Invalid message format'.
MalformedMessage(s) ==
    /\ Receives(s)
    /\ CanNotify(s, "error")
    /\ Notify(s, [type |-> "error"])
    /\ Did(s, NoFrame)
    /\ UNCHANGED <<conn, route, sessions, sessionVars, serviceVars, wireVars,
                   historyVars, processVars>>

\* handleMessage's default branch: console.warn only.
UnknownCommand(s) ==
    /\ Receives(s)
    /\ Did(s, NoFrame)
    /\ UNCHANGED <<clientVars, sessionVars, serviceVars, wireVars,
                   historyVars, processVars>>

StartRecording(s) ==
    /\ Receives(s)
    /\ isRecording' = [isRecording EXCEPT ![s] = TRUE]
    /\ audioChunks' = [audioChunks EXCEPT ![s] = <<>>]
    /\ chunkCounter' = [chunkCounter EXCEPT ![s] = 0]
    /\ fullTranscript' = [fullTranscript EXCEPT ![s] = <<>>]
    /\ Notify(s, [type |-> "recording_started"])
    /\ started' = [started EXCEPT ![s] = TRUE]
    /\ pauseState' = [pauseState EXCEPT
                        ![s] = IF @ = "paused" THEN "pausedThenStarted"
                               ELSE IF @ = "resumed" THEN "never" ELSE @]
    /\ Did(s, NoFrame)
    /\ UNCHANGED <<conn, route, sessions, serviceVars, wireVars, begun,
                   terminated, processVars>>

\* stopRecording that also takes the session out of the registry.
StopRecording_Deregisters(s) ==
    /\ Receives(s)
    /\ isRecording' = [isRecording EXCEPT ![s] = FALSE]
    /\ Notify(s, [type |-> "recording_stopped",
                  finalTranscript |-> fullTranscript[s]])
    /\ pauseState' = [pauseState EXCEPT
                        ![s] = IF @ = "resumed" THEN "never" ELSE @]
    /\ sessions' = sessions \ {s}
    /\ Did(s, NoFrame)
    /\ UNCHANGED <<conn, route, fullTranscript, audioChunks,
                   chunkCounter, serviceVars, wireVars, begun, terminated,
                   started, processVars>>

StopRecording(s) ==
    /\ Receives(s)
    /\ isRecording' = [isRecording EXCEPT ![s] = FALSE]
    /\ Notify(s, [type |-> "recording_stopped",
                  finalTranscript |-> fullTranscript[s]])
    /\ pauseState' = [pauseState EXCEPT
                        ![s] = IF @ = "resumed" THEN "never" ELSE @]
    /\ Did(s, NoFrame)
    /\ UNCHANGED <<conn, route, sessions, fullTranscript, audioChunks,
                   chunkCounter, serviceVars, wireVars, begun, terminated,
                   started, processVars>>

\* pauseRecording that also empties the transcript.
PauseRecording_ClearsTranscript(s) ==
    /\ Receives(s)
    /\ isRecording' = [isRecording EXCEPT ![s] = FALSE]
    /\ fullTranscript' = [fullTranscript EXCEPT ![s] = <<>>]
    /\ Notify(s, [type |-> "recording_paused"])
    /\ pauseState' = [pauseState EXCEPT ![s] = "paused"]
    /\ Did(s, NoFrame)
    /\ UNCHANGED <<conn, route, sessions, audioChunks,
                   chunkCounter, serviceVars, wireVars, begun, terminated,
                   started, processVars>>

PauseRecording(s) ==
    /\ Receives(s)
    /\ isRecording' = [isRecording EXCEPT ![s] = FALSE]
    /\ Notify(s, [type |-> "recording_paused"])
    /\ pauseState' = [pauseState EXCEPT ![s] = "paused"]
    /\ Did(s, NoFrame)
    /\ UNCHANGED <<conn, route, sessions, fullTranscript, audioChunks,
                   chunkCounter, serviceVars, wireVars, begun, terminated,
                   started, processVars>>

ResumeRecording(s) ==
    /\ Receives(s)
    /\ isRecording' = [isRecording EXCEPT ![s] = TRUE]
    /\ Notify(s, [type |-> "recording_resumed"])
    /\ pauseState' = [pauseState EXCEPT
                        ![s] = IF @ = "never" THEN "never" ELSE "resumed"]
    /\ Did(s, NoFrame)
    /\ UNCHANGED <<conn, route, sessions, fullTranscript, audioChunks,
                   chunkCounter, serviceVars, wireVars, begun, terminated,
                   started, processVars>>

\* RecordingService.forceEndOfTurn -> service.forceEndOfTurn.
ForceEndOfTurn(s) ==
    /\ Receives(s)
    /\ IF forceEndOfTurnReady(websocket[s], isConnected[s]) /\ ws[s] = "open"
       THEN /\ wireCtl[s]["ForceEndpoint"] < MaxCtl
            /\ wireCtl' = [wireCtl EXCEPT ![s]["ForceEndpoint"] = @ + 1]
       ELSE UNCHANGED wireCtl
    /\ Did(s, NoFrame)
    /\ UNCHANGED <<clientVars, sessionVars, serviceVars, wireAudio,
                   historyVars, processVars>>

\* The provider connection as the provider sees it: transport open, Begin
\* sent, no Termination sent.
ProviderReady(s) == ws[s] = "open" /\ begun[s] /\ ~terminated[s]

\* processAudioChunk, with the sendAudioChunk it calls.
AudioChunk(s, payload) ==
    /\ Receives(s)
    /\ IF AcceptsFrame(isRecording[s], payload)
       THEN /\ chunkCounter[s] < MaxChunks
            /\ audioChunks' = [audioChunks EXCEPT
                                 ![s] = Append(@, DecodedLength(payload.chars))]
            /\ chunkCounter' = [chunkCounter EXCEPT ![s] = @ + 1]
            /\ IF /\ sendAudioChunkReady(websocket[s], isConnected[s],
                                         sessionStarted[s])
                  /\ ws[s] = "open"
               THEN /\ wireAudio[s] < MaxWire
                    /\ wireAudio' = [wireAudio EXCEPT ![s] = @ + 1]
               ELSE UNCHANGED wireAudio
       ELSE UNCHANGED <<audioChunks, chunkCounter, wireAudio>>
    /\ Did(s, [NoFrame EXCEPT !.frame = FrameClass(payload),
                              !.ready = ProviderReady(s),
                              !.wrote = wireAudio'[s] # wireAudio[s],
                              !.waiting = \E o \in AllSessions \ {s} :
                                             connect[o] = "pending"])
    /\ UNCHANGED <<clientVars, isRecording, fullTranscript, serviceVars,
                   wireCtl, historyVars, processVars>>

\* stopRealTimeTranscription that closes the transport before it sends
\* Terminate: the send on the closing socket writes nothing.
StopTranscription_ClosesFirst(s) ==
    IF websocket[s]
    THEN /\ UNCHANGED wireCtl
         /\ ws' = [ws EXCEPT
                     ![s] = IF @ \in {"connecting", "open"} THEN "closing" ELSE @]
         /\ websocket' = [websocket EXCEPT ![s] = FALSE]
         /\ isConnected' = [isConnected EXCEPT ![s] = FALSE]
         /\ sessionStarted' = [sessionStarted EXCEPT ![s] = FALSE]
    ELSE UNCHANGED <<wireCtl, ws, websocket, isConnected, sessionStarted>>

\* stopRealTimeTranscription, called by endSession.
StopTranscription(s) ==
    IF websocket[s]
    THEN /\ wireCtl' = [wireCtl EXCEPT
                          ![s]["Terminate"] = IF ws[s] = "open" THEN @ + 1 ELSE @]
         /\ ws' = [ws EXCEPT
                     ![s] = IF @ \in {"connecting", "open"} THEN "closing" ELSE @]
         /\ websocket' = [websocket EXCEPT ![s] = FALSE]
         /\ isConnected' = [isConnected EXCEPT ![s] = FALSE]
         /\ sessionStarted' = [sessionStarted EXCEPT ![s] = FALSE]
    ELSE UNCHANGED <<wireCtl, ws, websocket, isConnected, sessionStarted>>

\* endSession(sessionId).
EndSession(s) ==
    IF s \in sessions
    THEN /\ StopTranscription(s)
         /\ sessions' = sessions \ {s}
    ELSE UNCHANGED <<sessions, wireCtl, ws, websocket, isConnected,
                     sessionStarted>>

\* The client closes its socket.  connection.on('close') runs endSession
\* only when the route handler got as far as attaching it.
ClientClose(s) ==
    /\ ~crashed
    /\ conn[s] = "open"
    /\ conn' = [conn EXCEPT ![s] = "closedByClient"]
    /\ IF route[s] = "listening"
       THEN EndSession(s)
       ELSE UNCHANGED <<sessions, wireCtl, ws, websocket, isConnected,
                        sessionStarted>>
    /\ Did(s, NoFrame)
    /\ UNCHANGED <<route, clientLog, sessionVars, token, connect, timer,
                   speakerMapping, currentTurnText, wireAudio, historyVars,
                   processVars>>

\* ------------------------------------------- the provider client on its own
\* The public methods of AssemblyAIStreamingService called by an owner of
\* the client other than the route handler, once the client has created its
\* transport.  last[s].call records the method.

\* service.sendAudioChunk(buffer)
sendAudioChunk(s) ==
    /\ ~crashed
    /\ token[s] = "granted"
    /\ IF /\ sendAudioChunkReady(websocket[s], isConnected[s], sessionStarted[s])
          /\ ws[s] = "open"
       THEN /\ wireAudio[s] < MaxWire
            /\ wireAudio' = [wireAudio EXCEPT ![s] = @ + 1]
       ELSE UNCHANGED wireAudio
    /\ Did(s, [NoFrame EXCEPT !.call = "sendAudioChunk"])
    /\ UNCHANGED <<clientVars, sessionVars, serviceVars, wireCtl, historyVars,
                   processVars>>

\* service.forceEndOfTurn()
forceEndOfTurn(s) ==
    /\ ~crashed
    /\ token[s] = "granted"
    /\ IF forceEndOfTurnReady(websocket[s], isConnected[s]) /\ ws[s] = "open"
       THEN /\ wireCtl[s]["ForceEndpoint"] < MaxCtl
            /\ wireCtl' = [wireCtl EXCEPT ![s]["ForceEndpoint"] = @ + 1]
       ELSE UNCHANGED wireCtl
    /\ Did(s, [NoFrame EXCEPT !.call = "forceEndOfTurn"])
    /\ UNCHANGED <<clientVars, sessionVars, serviceVars, wireAudio,
                   historyVars, processVars>>

\* service.stopRealTimeTranscription()
stopRealTimeTranscription(s) ==
    /\ ~crashed
    /\ token[s] = "granted"
    /\ StopTranscription(s)
    /\ Did(s, [NoFrame EXCEPT !.call = "stopRealTimeTranscription"])
    /\ UNCHANGED <<clientVars, sessionVars, token, connect, timer,
                   speakerMapping, currentTurnText, wireAudio, historyVars,
                   processVars>>

\* ------------------------------------------------- file-upload transcription
\* TranscriptionService.transcribeAudioWithSpeakers, one call at a time.
\* upload.pc: idle; assemblyAi (awaiting the diarized transcription);
\* openai (awaiting transcribeAudio, AssemblyAI not configured);
\* openaiFallback (awaiting transcribeAudio in the catch).  A result records
\* what the call gave its caller and how the two services answered.

\* { text, language, confidence, formattedText, speakers } of the diarized
\* result: the text with its speaker labels.
DiarizedResult(t) ==
    [status |-> "returned", text |-> <<t>>,
     formattedText |-> <<"Speaker A: ", t>>, speakers |-> TRUE,
     assemblyAi |-> "ok", openai |-> "notCalled"]

\* { ...result, formattedText: result.text }
PlainResult(t, assembly) ==
    [status |-> "returned", text |-> <<t>>, formattedText |-> <<t>>,
     speakers |-> FALSE, assemblyAi |-> assembly, openai |-> "ok"]

\* transcribeAudio threw: the await rethrows to the caller.
ThrownResult(assembly) ==
    [status |-> "thrown", text |-> <<>>, formattedText |-> <<>>,
     speakers |-> FALSE, assemblyAi |-> assembly, openai |-> "failed"]

UploadEnds(result) ==
    upload' = [pc |-> "idle", results |-> Append(upload.results, result)]

\* transcribeAudioWithSpeakers(audioFilePath) up to its first await.
TranscribeWithSpeakers ==
    /\ upload.pc = "idle"
    /\ Len(upload.results) < MaxUploads
    /\ upload' = [upload EXCEPT !.pc = IF apiKey THEN "assemblyAi" ELSE "openai"]
    /\ UNCHANGED <<streamingVars, pipelineVars>>

\* assemblyAiService.transcribeAudioWithSpeakers resolves.
AssemblyAiReturns(t) ==
    /\ upload.pc = "assemblyAi"
    /\ UploadEnds(DiarizedResult(t))
    /\ UNCHANGED <<streamingVars, pipelineVars>>

\* AssemblyAiThrows without the catch: the error reaches the caller.
AssemblyAiThrows_Rethrows ==
    /\ upload.pc = "assemblyAi"
    /\ UploadEnds([ThrownResult("failed") EXCEPT !.openai = "notCalled"])
    /\ UNCHANGED <<streamingVars, pipelineVars>>

\* assemblyAiService.transcribeAudioWithSpeakers throws: the catch calls
\* transcribeAudio.
AssemblyAiThrows ==
    /\ upload.pc = "assemblyAi"
    /\ upload' = [upload EXCEPT !.pc = "openaiFallback"]
    /\ UNCHANGED <<streamingVars, pipelineVars>>

\* transcribeAudio resolves.
OpenAiReturns(t) ==
    /\ upload.pc \in {"openai", "openaiFallback"}
    /\ UploadEnds(PlainResult(t, IF upload.pc = "openai"
                                 THEN "notConfigured" ELSE "failed"))
    /\ UNCHANGED <<streamingVars, pipelineVars>>

\* transcribeAudio throws: no OpenAI key, or the request failed.
OpenAiThrows ==
    /\ upload.pc \in {"openai", "openaiFallback"}
    /\ UploadEnds(ThrownResult(IF upload.pc = "openai"
                               THEN "notConfigured" ELSE "failed"))
    /\ UNCHANGED <<streamingVars, pipelineVars>>

\* ------------------------------------------------- uploaded meeting pipeline
\* POST /api/upload and processAudioFile(meetingId, filepath).  The handler
\* starts processAudioFile without awaiting it; every await of the function
\* is one step, and each awaited call either returns or throws into the one
\* try/catch that wraps the body.
Awaits ==
    {"markTranscribing", "transcribe", "storeTranscription",
     "markTranscriptionComplete", "insights", "storeAiNotes",
     "markCompleted"}

MeetingStays(m) == UNCHANGED <<streamingVars, upload, poll>>

\* db.insert(meetings).values({ ..., status: 'uploading' }), then
\* processAudioFile(meeting.id, filepath) runs up to its first await.
UploadMeeting(m) ==
    /\ ~crashed
    /\ processing[m] = "none"
    /\ meetings' = [meetings EXCEPT ![m].status = "uploading"]
    /\ processing' = [processing EXCEPT ![m] = "markTranscribing"]
    /\ MeetingStays(m)

\* The upload handler throws before the row exists (no file, the write or
\* the insert fails): reply 500, processAudioFile is not started.
UploadFails(m) ==
    /\ ~crashed
    /\ processing[m] = "none"
    /\ processing' = [processing EXCEPT ![m] = "rejected"]
    /\ UNCHANGED meetings
    /\ MeetingStays(m)

\* await db.update(meetings).set({ status: 'transcribing' })
MarkTranscribing(m) ==
    /\ ~crashed
    /\ processing[m] = "markTranscribing"
    /\ meetings' = [meetings EXCEPT ![m].status = "transcribing"]
    /\ processing' = [processing EXCEPT ![m] = "transcribe"]
    /\ MeetingStays(m)

\* await transcriptionService.transcribeAudioWithSpeakers(filepath) returns.
TranscribeFile(m) ==
    /\ ~crashed
    /\ processing[m] = "transcribe"
    /\ processing' = [processing EXCEPT ![m] = "storeTranscription"]
    /\ UNCHANGED meetings
    /\ MeetingStays(m)

\* await db.insert(transcriptions).values({ meetingId, ... })
StoreTranscription(m) ==
    /\ ~crashed
    /\ processing[m] = "storeTranscription"
    /\ meetings' = [meetings EXCEPT ![m].transcription = TRUE]
    /\ processing' = [processing EXCEPT ![m] = "markTranscriptionComplete"]
    /\ MeetingStays(m)

\* MarkTranscriptionComplete that writes 'completed'.
MarkTranscriptionComplete_Completed(m) ==
    /\ ~crashed
    /\ processing[m] = "markTranscriptionComplete"
    /\ meetings' = [meetings EXCEPT ![m].status = "completed"]
    /\ processing' = [processing EXCEPT ![m] = "insights"]
    /\ MeetingStays(m)

\* await db.update(meetings).set({ status: 'transcription_complete' })
MarkTranscriptionComplete(m) ==
    /\ ~crashed
    /\ processing[m] = "markTranscriptionComplete"
    /\ meetings' = [meetings EXCEPT ![m].status = "transcription_complete"]
    /\ processing' = [processing EXCEPT ![m] = "insights"]
    /\ MeetingStays(m)

\* await aiService.generateMeetingInsights(transcriptionResult.text) returns
\* (the model's answer, or the fallback insights without an OpenAI key).
GenerateInsights(m) ==
    /\ ~crashed
    /\ processing[m] = "insights"
    /\ processing' = [processing EXCEPT ![m] = "storeAiNotes"]
    /\ UNCHANGED meetings
    /\ MeetingStays(m)

\* await db.insert(aiNotes).values({ meetingId, ... })
StoreAiNotes(m) ==
    /\ ~crashed
    /\ processing[m] = "storeAiNotes"
    /\ meetings' = [meetings EXCEPT ![m].aiNotes = TRUE]
    /\ processing' = [processing EXCEPT ![m] = "markCompleted"]
    /\ MeetingStays(m)

\* await db.update(meetings).set({ status: 'completed' }): the function ends.
MarkCompleted(m) ==
    /\ ~crashed
    /\ processing[m] = "markCompleted"
    /\ meetings' = [meetings EXCEPT ![m].status = "completed"]
    /\ processing' = [processing EXCEPT ![m] = "done"]
    /\ MeetingStays(m)

\* The awaited call throws (a statement that failed wrote nothing): control
\* enters the catch block, suspended at its update.
StepThrows(m) ==
    /\ ~crashed
    /\ processing[m] \in Awaits
    /\ processing' = [processing EXCEPT ![m] = "catch"]
    /\ UNCHANGED meetings
    /\ MeetingStays(m)

\* catch: await db.update(meetings).set({ status: 'failed', description })
MarkFailed(m) ==
    /\ ~crashed
    /\ processing[m] = "catch"
    /\ meetings' = [meetings EXCEPT ![m].status = "failed"]
    /\ processing' = [processing EXCEPT ![m] = "done"]
    /\ MeetingStays(m)

\* The update of the catch block throws too: the promise of
\* processAudioFile, which nobody awaits, rejects.
MarkFailedThrows(m) ==
    /\ ~crashed
    /\ processing[m] = "catch"
    /\ processing' = [processing EXCEPT ![m] = "unhandled"]
    /\ Crash("processAudioFile")
    /\ UNCHANGED <<apiKey, route, sessions, clientLog, sessionVars,
                   serviceVars, wireVars, historyVars, last, upload,
                   meetings, poll>>

\* ------------------------------------------------------- pollForCompletion
\* pollForCompletion(transcriptId): one call.  poll.attempt is the loop
\* variable, poll.polls the status requests sent, poll.pending the answers
\* that were neither completed nor error, poll.status what the last request
\* reported and poll.outcome how the call ended.
ProviderStatuses == {"queued", "processing", "completed", "error"}

PollStays == UNCHANGED <<streamingVars, upload, meetings, processing>>

\* The loop test of a loop that also runs for attempt = maxAttempts.
LoopContinues_Inclusive(attempt) == attempt <= maxAttempts

\* attempt < maxAttempts
LoopContinues(attempt) == attempt < maxAttempts

\* The head of the for loop with the loop variable at p.attempt: the next
\* fetch is sent, or the loop is left and 'Transcription timed out' thrown.
LoopHead(p) ==
    IF LoopContinues(p.attempt)
    THEN [p EXCEPT !.pc = "fetch", !.polls = @ + 1]
    ELSE [p EXCEPT !.pc = "thrown", !.outcome = "timeout"]

\* The call, up to its first await.
pollForCompletion ==
    /\ poll.pc = "idle"
    /\ poll' = LoopHead([poll EXCEPT !.attempt = 0])
    /\ PollStays

\* The response is OK and its body carries the status st.
PollAnswers(st) ==
    /\ poll.pc = "fetch"
    /\ poll' = IF st = "completed"
               THEN [poll EXCEPT !.pc = "returned", !.status = st,
                                 !.outcome = "completed"]
               ELSE IF st = "error"
               THEN [poll EXCEPT !.pc = "thrown", !.status = st,
                                 !.outcome = "failed"]
               ELSE [poll EXCEPT !.pc = "sleep", !.status = st,
                                 !.pending = @ + 1]
    /\ PollStays

\* if (!response.ok) throw
PollNotOk ==
    /\ poll.pc = "fetch"
    /\ poll' = [poll EXCEPT !.pc = "thrown", !.status = "notOk",
                            !.outcome = "failed"]
    /\ PollStays

\* fetch or response.json() rejects: the await rethrows.
PollRejects ==
    /\ poll.pc = "fetch"
    /\ poll' = [poll EXCEPT !.pc = "thrown", !.status = "rejected",
                            !.outcome = "failed"]
    /\ PollStays

\* The pollInterval timer fires: attempt++ and the loop test.
PollTimer ==
    /\ poll.pc = "sleep"
    /\ poll' = LoopHead([poll EXCEPT !.attempt = @ + 1])
    /\ PollStays

\* ------------------------------------------------------------ specification
SessionStep(s) ==
    \/ ClientConnect(s)
    \/ TokenGranted(s)
    \/ TokenRejected(s)
    \/ WsOpen(s)
    \/ TimerFires(s)
    \/ ProviderBegin(s)
    \/ \E m \in LightTurns : ProviderTurn(s, m)
    \/ ProviderTermination(s)
    \/ WsError(s)
    \/ WsClose(s)
    \/ UnheardMessage(s)
    \/ MalformedMessage(s)
    \/ UnknownCommand(s)
    \/ StartRecording(s)
    \/ StopRecording(s)
    \/ PauseRecording(s)
    \/ ResumeRecording(s)
    \/ ForceEndOfTurn(s)
    \/ \E payload \in AudioPayloads : AudioChunk(s, payload)
    \/ ClientClose(s)

Next == \E s \in Sessions : SessionStep(s)

Spec == Init /\ [][Next]_vars

\* Turn assembly: a session that connects, the provider's Turn events in
\* full, and the commands that read or reset the transcript.
TurnStep(s) ==
    \/ ClientConnect(s)
    \/ TokenGranted(s)
    \/ WsOpen(s)
    \/ ProviderBegin(s)
    \/ \E m \in TurnMessages : ProviderTurn(s, m)
    \/ StartRecording(s)
    \/ StopRecording(s)
    \/ WsClose(s)
    \/ ClientClose(s)

NextTurns == \E s \in Sessions : TurnStep(s)

SpecTurns == Init /\ [][NextTurns]_vars

\* The many-speaker meeting: one session, partial Turn events whose single
\* word carries a speaker id.  A new id is one of ProviderSpeakers or the
\* lowest id not seen yet.
NextUnseen(mapping) ==
    LET unseen == {i \in 1..MaxSpeakers :
                     \A j \in 1..Len(mapping) : mapping[j] # ToString(i)}
    IN  IF unseen = {}
        THEN {}
        ELSE {ToString(CHOOSE i \in unseen : \A k \in unseen : i <= k)}

SpeakerTurns(mapping) ==
    {[transcript |-> "hi", words |-> <<[speaker |-> id, confidence |-> NoConfidence]>>,
      end_of_turn |-> FALSE, turn_order |-> 0] :
        id \in ProviderSpeakers \cup NextUnseen(mapping)}

SpeakerTurn(s, m) == TurnEvent(s, m, MaxSpeakerTurns)

SpeakersStep(s) ==
    \/ ClientConnect(s)
    \/ TokenGranted(s)
    \/ WsOpen(s)
    \/ \E m \in SpeakerTurns(speakerMapping[s]) : SpeakerTurn(s, m)
    \/ StartRecording(s)
    \/ StopRecording(s)

NextSpeakers == \E s \in Sessions : SpeakersStep(s)

SpecSpeakers == Init /\ [][NextSpeakers]_vars

\* Two sessions side by side, Turn events of one word that carries a
\* speaker id.
PairTurns ==
    {m \in TurnMessages :
        /\ m.transcript \in Texts
        /\ m.turn_order = 0
        /\ Len(m.words) = 1
        /\ m.words[1].speaker # NoId}

PairStep(s) ==
    \/ ClientConnect(s)
    \/ TokenGranted(s)
    \/ WsOpen(s)
    \/ \E m \in PairTurns : ProviderTurn(s, m)

NextPair == \E s \in AllSessions : PairStep(s)

SpecPair == Init /\ [][NextPair]_vars

\* The diarized meeting: one session, Turn events with up to MaxTurnWords
\* words and two different texts.
DiarizedWordLists ==
    UNION {[1..n -> [speaker : ProviderSpeakers \cup {NoId},
                     confidence : {NoConfidence}]] : n \in 0..MaxTurnWords}

DiarizedTurns ==
    [transcript : TurnTexts \cup Blank, words : DiarizedWordLists,
     end_of_turn : BOOLEAN, turn_order : {0}]

DiarizedStep(s) ==
    \/ ClientConnect(s)
    \/ TokenGranted(s)
    \/ WsOpen(s)
    \/ \E m \in DiarizedTurns : ProviderTurn(s, m)

NextDiarized == \E s \in Sessions : DiarizedStep(s)

SpecDiarized == Init /\ [][NextDiarized]_vars

\* The provider client driven through its public methods: a session that
\* connects, the provider's acknowledgement and close, the client's
\* disconnect, and calls of sendAudioChunk, forceEndOfTurn and
\* stopRealTimeTranscription in any order.
ClientApiStep(s) ==
    \/ ClientConnect(s)
    \/ TokenGranted(s)
    \/ WsOpen(s)
    \/ ProviderBegin(s)
    \/ ProviderTermination(s)
    \/ WsClose(s)
    \/ ClientClose(s)
    \/ sendAudioChunk(s)
    \/ forceEndOfTurn(s)
    \/ stopRealTimeTranscription(s)

NextClientApi == \E s \in Sessions : ClientApiStep(s)

SpecClientApi == Init /\ [][NextClientApi]_vars

\* The scored meeting: one session, Turn events whose words carry a
\* confidence in hundredths or none.
Confidences == {0, 50, 100}

ScoredWordLists ==
    UNION {[1..n -> [speaker : {NoId},
                     confidence : {NoConfidence} \cup
                                  {<<c>> : c \in Confidences}]] :
             n \in 0..MaxScoredWords}

ScoredTurns ==
    [transcript : TurnTexts, words : ScoredWordLists,
     end_of_turn : BOOLEAN, turn_order : {0}]

ScoredStep(s) ==
    \/ ClientConnect(s)
    \/ TokenGranted(s)
    \/ WsOpen(s)
    \/ \E m \in ScoredTurns : ProviderTurn(s, m)

NextScored == \E s \in Sessions : ScoredStep(s)

SpecScored == Init /\ [][NextScored]_vars

\* File uploads: calls of transcribeAudioWithSpeakers one after the other,
\* each service answering or failing.
NextUpload ==
    \/ TranscribeWithSpeakers
    \/ \E t \in TurnTexts : AssemblyAiReturns(t)
    \/ AssemblyAiThrows
    \/ \E t \in TurnTexts : OpenAiReturns(t)
    \/ OpenAiThrows

SpecUpload == Init /\ [][NextUpload]_vars

\* The paused meeting: one session, every recording command, and Turn events
\* without words, partial or final, blank or not, at any moment.
RecordingTurns ==
    [transcript : TurnTexts \cup Blank, words : {<<>>},
     end_of_turn : BOOLEAN, turn_order : {0}]

RecordingTurn(s, m) == TurnEvent(s, m, MaxRecordingTurns)

RecordingStep(s) ==
    \/ ClientConnect(s)
    \/ TokenGranted(s)
    \/ WsOpen(s)
    \/ ProviderBegin(s)
    \/ \E m \in RecordingTurns : RecordingTurn(s, m)
    \/ StartRecording(s)
    \/ StopRecording(s)
    \/ PauseRecording(s)
    \/ ResumeRecording(s)

NextRecording == \E s \in Sessions : RecordingStep(s)

SpecRecording == Init /\ [][NextRecording]_vars

\* Sessions side by side on the audio path: two clients connect, each at its
\* own pace, and send well-formed frames of an even number of bytes.
EvenPayloads == {p \in AudioPayloads : FrameClass(p) = "even"}

ConcurrentStep(s) ==
    \/ ClientConnect(s)
    \/ TokenGranted(s)
    \/ WsOpen(s)
    \/ ProviderBegin(s)
    \/ StartRecording(s)
    \/ \E payload \in EvenPayloads : AudioChunk(s, payload)

NextConcurrent == \E s \in AllSessions : ConcurrentStep(s)

SpecConcurrent == Init /\ [][NextConcurrent]_vars

\* Uploaded meetings: each file is uploaded once and processed in the
\* background, the pipelines of different meetings interleaving.
MeetingStep(m) ==
    \/ UploadMeeting(m)
    \/ UploadFails(m)
    \/ MarkTranscribing(m)
    \/ TranscribeFile(m)
    \/ StoreTranscription(m)
    \/ MarkTranscriptionComplete(m)
    \/ GenerateInsights(m)
    \/ StoreAiNotes(m)
    \/ MarkCompleted(m)
    \/ StepThrows(m)
    \/ MarkFailed(m)
    \/ MarkFailedThrows(m)

NextMeetings == \E m \in MeetingIds : MeetingStep(m)

SpecMeetings == Init /\ [][NextMeetings]_vars

\* One call of pollForCompletion; every request it sends is answered or
\* fails, and every timer it sets fires.
NextPoll ==
    \/ pollForCompletion
    \/ \E st \in ProviderStatuses : PollAnswers(st)
    \/ PollNotOk
    \/ PollRejects
    \/ PollTimer

SpecPoll == Init /\ [][NextPoll]_vars /\ WF_vars(NextPoll)

C2_BlocksInTurnOrder ==
    \A s \in Sessions :
        \A i, j \in 1..Len(fullTranscript[s]) :
            i < j => fullTranscript[s][i].turnOrder <= fullTranscript[s][j].turnOrder

\* C3: a frame is forwarded to the provider only if a start_recording was
\* received earlier in the session.
C3_ForwardOnlyAfterStart ==
    \A s \in Sessions : wireAudio[s] > 0 => started[s]

\* After a resume_recording that followed a pause, an even-length frame that
\* arrives while the provider connection is open and acknowledged is written
\* to the transport.
ForwardedAfterResume(s) ==
    (pauseState[s] = "resumed" /\ last[s].frame = "even" /\ last[s].ready)
        => last[s].wrote

\* C4 as stated: from a pause_recording until the next resume_recording no
\* frame is forwarded; after that resume_recording frames are forwarded again.
C4_NoForwardUntilResume ==
    [][\A s \in Sessions :
          /\ pauseState[s] \in {"paused", "pausedThenStarted"}
                => wireAudio'[s] = wireAudio[s]
          /\ ForwardedAfterResume(s)']_vars

\* C4 as amended: from a pause_recording until the next resume_recording or
\* start_recording no frame is forwarded; after a resume_recording frames
\* are forwarded again.
C4_NoForwardUntilResumeOrStart ==
    [][\A s \in Sessions :
          /\ pauseState[s] = "paused" => wireAudio'[s] = wireAudio[s]
          /\ ForwardedAfterResume(s)']_vars

\* A frame was forwarded right after pause_recording, resume_recording.
C4_Witness ==
    \E s \in Sessions :
        pauseState[s] = "resumed" /\ last[s].frame = "even" /\ last[s].wrote

\* C5: an audio_chunk that decodes to zero or to an odd number of bytes is
\* not forwarded, and handling it leaves the session registered, the client
\* connection open and the recording flag as it was.
C5_BadLengthRejected ==
    [][\A s \in Sessions :
          (last'[s].frame \in {"zero", "odd"} /\ last'[s] # last[s])
              => /\ wireAudio'[s] = wireAudio[s]
                 /\ ~last'[s].wrote
                 /\ (s \in sessions) = (s \in sessions')
                 /\ s \in sessions'
                 /\ conn'[s] = "open"
                 /\ isRecording'[s] = isRecording[s]]_vars

\* An odd-length frame was handled by a recording session whose provider
\* connection would have taken it.
C5_Witness ==
    \E s \in Sessions :
        /\ last[s].frame = "odd"
        /\ isRecording[s]
        /\ ProviderReady(s)
        /\ s \in sessions
        /\ conn[s] = "open"

\* C6: every malformed client message (unparseable envelope, absent or
\* non-base64 payload, odd-length buffer) makes one error message reach the
\* client, and the session stays open and registered.
C6_MalformedReported ==
    [][\A s \in Sessions :
          (\/ MalformedMessage(s)
           \/ /\ isRecording[s]
              /\ last'[s].frame \in {"invalid", "zero", "odd"}
              /\ last'[s] # last[s])
              => /\ clientLog'[s]["error"] = clientLog[s]["error"] + 1
                 /\ conn'[s] = "open"
                 /\ s \in sessions']_vars

C8_AuthFailureReported ==
    \A s \in Sessions :
        (token[s] = "rejected" /\ ~ENABLED SessionStep(s)) =>
            /\ connect[s] = "rejected"
            /\ clientLog[s]["error"] = 1
            /\ conn[s] = "closedByServer"
            /\ s \notin sessions

\* C9: connect has succeeded only if Begin was received; once the 10 s timer
\* has fired without a Begin, connect has failed.
C9_SuccessOnlyAfterBegin ==
    \A s \in Sessions :
        /\ connect[s] = "resolved" => begun[s]
        /\ (timer[s] = "fired" /\ ~begun[s]) => connect[s] = "rejected"

\* C10: a binary frame is written to the provider transport only while it is
\* open and acknowledged (Begin received, no Termination, not closed), and
\* only in the step that handles that very frame: one write per frame, none
\* for a frame that was dropped.
C10_SendOnlyWhenReady ==
    [][\A s \in Sessions :
          wireAudio'[s] # wireAudio[s]
              => /\ ProviderReady(s)
                 /\ wireAudio'[s] = wireAudio[s] + 1
                 /\ chunkCounter'[s] = chunkCounter[s] + 1
                 /\ last'[s].frame = "even"
                 /\ last'[s].wrote]_vars

\* A frame was written although an earlier frame of the same recording had
\* been dropped.
C10_Witness ==
    \E s \in Sessions :
        last[s].wrote /\ chunkCounter[s] > wireAudio[s]

\* The provider transport of a session is gone: it failed or it closed.
ProviderLost(s) == ws[s] \in {"failed", "closed"}

\* C11: once the provider connection of a session with a connected client
\* has dropped or failed, the session is out of the registry and the
\* provider client has been closed (its socket reference released).
C11_ProviderLossEndsSession ==
    \A s \in Sessions :
        (route[s] = "listening" /\ conn[s] = "open" /\ ProviderLost(s))
            => (s \notin sessions /\ ~websocket[s])

\* C12: when the provider transport of a registered session with a connected
\* client closes, or the provider sends Termination, that step delivers one
\* warning message to the client.
C12_ProviderCloseWarned ==
    [][\A s \in Sessions :
          (/\ s \in sessions
           /\ conn[s] = "open"
           /\ \/ (ws[s] # "closed" /\ ws'[s] = "closed")
              \/ (~terminated[s] /\ terminated'[s]))
              => clientLog'[s]["warning"] = clientLog[s]["warning"] + 1]_vars

\* The transport of a registered session closed and its client was warned.
C12_Witness ==
    \E s \in Sessions :
        /\ s \in sessions
        /\ conn[s] = "open"
        /\ ws[s] = "closed"
        /\ clientLog[s]["warning"] >= 1

\* C13: after the provider connection has dropped, handling an audio_chunk
\* sends nothing to the provider and leaves the recording flag, the
\* transcript, the retained audio and the chunk counter as they were.
C13_AudioAfterLossNoOp ==
    [][\A s \in Sessions :
          (/\ ProviderLost(s)
           /\ \E payload \in AudioPayloads : AudioChunk(s, payload))
              => /\ wireAudio'[s] = wireAudio[s]
                 /\ isRecording'[s] = isRecording[s]
                 /\ fullTranscript'[s] = fullTranscript[s]
                 /\ audioChunks'[s] = audioChunks[s]
                 /\ chunkCounter'[s] = chunkCounter[s]]_vars

\* C14: once the client has disconnected and the provider connect has
\* settled, the session is not in the registry and its provider transport
\* is neither connecting nor open.
C14_NothingOutlivesClient ==
    \A s \in Sessions :
        (conn[s] = "closedByClient" /\ connect[s] \in {"resolved", "rejected"})
            => (s \notin sessions /\ ws[s] \notin {"connecting", "open"})

\* C15: once a session has ended (it was registered, its client disconnected
\* and endSession removed it), no step changes its transcript or sends
\* anything on its client connection.
C15_EventsAfterEndDropped ==
    [][\A s \in Sessions :
          (route[s] = "listening" /\ s \notin sessions
              /\ conn[s] = "closedByClient")
              => /\ fullTranscript'[s] = fullTranscript[s]
                 /\ clientLog'[s] = clientLog[s]]_vars

\* C16: a provider transport is created for a session only when it has
\* none yet, the token is requested only when it never was, and neither
\* ever returns to its initial state: one provider connection per session
\* lifetime, no reconnect after a loss.
C16_OneProviderConnection ==
    [][\A s \in Sessions :
          /\ (ws'[s] = "connecting" /\ ws[s] # "connecting") => ws[s] = "none"
          /\ ws[s] # "none" => ws'[s] # "none"
          /\ (token'[s] = "pending" /\ token[s] # "pending") => token[s] = "none"
          /\ token[s] # "none" => token'[s] # "none"]_vars

\* The transport of a registered session closed, and a valid frame arrived
\* afterwards with the client still connected: nothing was reopened.
C16_Witness ==
    \E s \in Sessions :
        /\ s \in sessions
        /\ conn[s] = "open"
        /\ ws[s] = "closed"
        /\ last[s].frame = "even"
        /\ ~last[s].wrote

\* The label of the i-th speaker a session has seen.
LabelAt(mapping, i) == mapSpeakerToLetter(mapping, mapping[i])

SpeakerCount(wl, k) == Cardinality({i \in 1..Len(wl) : wl[i].speaker = k})

FirstIndex(wl, k) ==
    CHOOSE i \in 1..Len(wl) :
        wl[i].speaker = k /\ \A j \in 1..(i - 1) : wl[j].speaker # k

\* The speaker id that occurs most often among words that all carry one,
\* ties going to the id whose first occurrence is earliest.
DominantSpeaker(carriers) ==
    CHOOSE k \in {carriers[i].speaker : i \in 1..Len(carriers)} :
        \A k2 \in {carriers[i].speaker : i \in 1..Len(carriers)} :
            \/ SpeakerCount(carriers, k) > SpeakerCount(carriers, k2)
            \/ /\ SpeakerCount(carriers, k) = SpeakerCount(carriers, k2)
               /\ FirstIndex(carriers, k) <= FirstIndex(carriers, k2)

\* C19: handling a Turn event with a non-blank transcript maps exactly the
\* dominant speaker of its speaker-carrying words (most frequent, ties to the
\* earliest first occurrence) and, when the event is final, labels the
\* appended block with that speaker; an event none of whose words carries a
\* speaker id maps nobody and its block has no speaker label.
C19_DominantSpeakerChosen ==
    [][\A s \in Sessions : \A wl \in DiarizedWordLists :
          LET m == [transcript |-> last'[s].text, words |-> wl,
                    end_of_turn |-> (last'[s].turn = "final"),
                    turn_order |-> 0]
          IN
          (/\ last'[s].turn # "none"
           /\ m.transcript \notin Blank
           /\ ProviderTurn(s, m)) =>
              LET carriers == SelectSeq(m.words, LAMBDA w : w.speaker # NoId)
                  old == speakerMapping[s]
                  new == speakerMapping'[s]
                  blocks == fullTranscript'[s]
                  appended == m.end_of_turn /\ route[s] = "listening"
              IN  IF carriers = <<>>
                  THEN /\ new = old
                       /\ appended => blocks[Len(blocks)].speaker = NoSpeaker
                  ELSE LET d == DominantSpeaker(carriers)
                       IN  /\ new = IF \E i \in 1..Len(old) : old[i] = d
                                    THEN old ELSE Append(old, d)
                           /\ appended =>
                                blocks[Len(blocks)].speaker =
                                  <<"Speaker ", speakerLetters[IndexOf(new, d)]>>]_vars

\* A final Turn event was attributed to the speaker the session saw second.
C19_Witness ==
    \E s \in Sessions :
        /\ Len(speakerMapping[s]) = 2
        /\ last[s].turn = "final"
        /\ Len(fullTranscript[s]) >= 1
        /\ fullTranscript[s][Len(fullTranscript[s])].speaker = <<"Speaker ", "B">>

\* C20 as stated: after a non-final Turn event was handled, the
\* current-partial text is that event's transcript, and the step left the
\* session transcript as it was.
C20_PartialReplacesCurrent ==
    [][\A s \in Sessions :
          last'[s].turn = "partial"
              => /\ currentTurnText'[s] = last'[s].text
                 /\ fullTranscript'[s] = fullTranscript[s]]_vars

\* C20 as amended: after a non-final Turn event with a non-blank transcript
\* was handled, the current-partial text is that event's transcript; a
\* non-final Turn event with a blank transcript leaves the current-partial
\* text as it was; either way the step left the session transcript as it was.
C20_NonBlankPartialReplacesCurrent ==
    [][\A s \in Sessions :
          last'[s].turn = "partial"
              => /\ currentTurnText'[s] =
                      (IF last'[s].text \in Blank
                       THEN currentTurnText[s] ELSE last'[s].text)
                 /\ fullTranscript'[s] = fullTranscript[s]]_vars

\* A partial text took the place of a different one, the transcript holding
\* a block.
C20_Witness ==
    \E s \in Sessions :
        /\ last[s].turn = "partial"
        /\ last[s].text = "yo"
        /\ currentTurnText[s] = "yo"
        /\ Len(fullTranscript[s]) >= 1

\* The blocks of turn o in a transcript.
BlocksOf(transcript, o) ==
    {i \in 1..Len(transcript) : transcript[i].turnOrder = o}

C22_RecordingCommandsOnlyToggle ==
    [][\A s \in Sessions :
          (StopRecording(s) \/ PauseRecording(s) \/ ResumeRecording(s)) =>
              /\ isRecording'[s] = ResumeRecording(s)
              /\ <<ws, websocket, isConnected, sessionStarted, connect, token,
                   timer>>' =
                 <<ws, websocket, isConnected, sessionStarted, connect, token,
                   timer>>
              /\ s \in sessions /\ sessions' = sessions
              /\ <<fullTranscript, audioChunks, chunkCounter, speakerMapping,
                   currentTurnText, wireAudio, wireCtl>>' =
                 <<fullTranscript, audioChunks, chunkCounter, speakerMapping,
                   currentTurnText, wireAudio, wireCtl>>
              /\ clientLog' = clientLog
              /\ Receives(s)']_vars

\* A stop_recording was the last command to set the flag; the session is
\* registered and still receives commands, its provider connection open and
\* acknowledged, audio of the recording forwarded.
C22_Witness ==
    \E s \in Sessions :
        /\ started[s] /\ ~isRecording[s] /\ pauseState[s] = "never"
        /\ s \in sessions
        /\ Receives(s)
        /\ ws[s] = "open" /\ isConnected[s] /\ sessionStarted[s]
        /\ wireAudio[s] >= 1

\* The transcript a is an initial part of the transcript b.
IsPrefix(a, b) == Len(a) <= Len(b) /\ SubSeq(b, 1, Len(a)) = a

C24_NoAudioRetained ==
    \A s \in Sessions :
        last[s].frame # "none" => audioChunks[s] = <<>>

\* close() has been called: the client has dropped the transport it created.
Stopped(s) == token[s] = "granted" /\ ~websocket[s]

\* C25: the stopRealTimeTranscription that finds a transport writes one
\* Terminate to it when it is open, starts closing it and resets the client;
\* a stopRealTimeTranscription after that writes nothing and changes nothing
\* of the client; after the first one no step writes audio or a control
\* message to the transport.
C25_CloseIdempotent ==
    [][\A s \in Sessions :
          /\ (websocket[s] /\ ~websocket'[s]) =>
                /\ wireCtl'[s]["Terminate"] =
                     wireCtl[s]["Terminate"] + (IF ws[s] = "open" THEN 1 ELSE 0)
                /\ ws'[s] \notin {"connecting", "open"}
                /\ ~isConnected'[s] /\ ~sessionStarted'[s]
          /\ (Stopped(s) /\ last'[s].call = "stopRealTimeTranscription") =>
                /\ <<ws, websocket, isConnected, sessionStarted, token,
                     connect, timer, speakerMapping, currentTurnText>>' =
                   <<ws, websocket, isConnected, sessionStarted, token,
                     connect, timer, speakerMapping, currentTurnText>>
          /\ Stopped(s) =>
                /\ wireAudio'[s] = wireAudio[s]
                /\ wireCtl'[s] = wireCtl[s]
                /\ Stopped(s)']_vars

\* The session's end closed a client that had forwarded audio and wrote one
\* Terminate; stopRealTimeTranscription was then called again.
C25_Witness ==
    \E s \in Sessions :
        /\ Stopped(s)
        /\ conn[s] = "closedByClient" /\ s \notin sessions
        /\ last[s].call = "stopRealTimeTranscription"
        /\ wireCtl[s]["Terminate"] = 1
        /\ wireAudio[s] >= 1

C27_ForceEndOfTurnForwardedOnce ==
    [][\A s \in Sessions :
          ForceEndOfTurn(s) =>
              /\ wireCtl'[s]["ForceEndpoint"] =
                   wireCtl[s]["ForceEndpoint"]
                     + (IF ws[s] = "open" /\ ~terminated[s] THEN 1 ELSE 0)
              /\ wireCtl'[s]["Terminate"] = wireCtl[s]["Terminate"]
              /\ wireAudio'[s] = wireAudio[s]
              /\ isRecording'[s] = isRecording[s]
              /\ fullTranscript'[s] = fullTranscript[s]]_vars

\* One ForceEndpoint went out for a session that is recording and holds a
\* block.
C27_Witness ==
    \E s \in Sessions :
        /\ wireCtl[s]["ForceEndpoint"] = 1
        /\ isRecording[s]
        /\ Len(fullTranscript[s]) >= 1
        /\ Receives(s)

\* The sum over the values v of v times the number of words of wl whose
\* confidence is the number v.
RECURSIVE WeightedSum(_, _)
WeightedSum(values, wl) ==
    IF values = {}
    THEN 0
    ELSE LET v == CHOOSE x \in values : TRUE
         IN  v * Cardinality({i \in 1..Len(wl) : wl[i].confidence = <<v>>})
               + WeightedSum(values \ {v}, wl)

\* C28: the confidence of the transcription message of a Turn event is the
\* arithmetic mean of the numeric confidences of the event's words, and is
\* 0.8 (80 hundredths) when the event has no word or no word with a numeric
\* confidence.
C28_ConfidenceIsMean ==
    [][\A s \in Sessions : \A wl \in ScoredWordLists :
          LET m == [transcript |-> last'[s].text, words |-> wl,
                    end_of_turn |-> (last'[s].turn = "final"),
                    turn_order |-> 0]
          IN
          (/\ last'[s].turn # "none"
           /\ last'[s].sent.type = "transcription"
           /\ ProviderTurn(s, m)) =>
              LET scored == {i \in 1..Len(wl) : wl[i].confidence # NoConfidence}
                  c == last'[s].sent.confidence
              IN  /\ c.den > 0
                  /\ IF scored = {}
                     THEN c.num = 80 * c.den
                     ELSE c.num * Cardinality(scored) =
                            WeightedSum(Confidences, wl) * c.den]_vars

\* The second transcription message the client took carries the mean of two
\* numeric confidences, 100 hundredths over 2.
C28_Witness ==
    \E s \in Sessions :
        /\ last[s].sent.type = "transcription"
        /\ last[s].sent.confidence = [num |-> 100, den |-> 2]
        /\ clientLog[s]["transcription"] = 2

\* C29: a call of transcribeAudioWithSpeakers made while AssemblyAI is not
\* configured, or whose diarized transcription failed, went on to the OpenAI
\* transcription; it returned that transcription without speaker labels
\* (formattedText equal to the text) when OpenAI answered, and it failed
\* exactly when OpenAI failed too.
C29_FallsBackToOpenAi ==
    \A i \in 1..Len(upload.results) :
        LET r == upload.results[i]
        IN  /\ ~apiKey => r.assemblyAi = "notConfigured"
            /\ r.assemblyAi \in {"notConfigured", "failed"} =>
                  /\ r.openai \in {"ok", "failed"}
                  /\ r.openai = "ok" =>
                        /\ r.status = "returned"
                        /\ r.formattedText = r.text
                        /\ ~r.speakers
                  /\ r.openai = "failed" => r.status = "thrown"
            /\ r.status = "thrown" => r.openai = "failed"

\* One call fell back to OpenAI after AssemblyAI failed and returned the
\* plain text, another failed with OpenAI, a third returned the diarized
\* result.
C29_Witness ==
    /\ Len(upload.results) = 3
    /\ upload.results[1].assemblyAi = "failed"
    /\ upload.results[1].status = "returned"
    /\ upload.results[1].formattedText = upload.results[1].text
    /\ upload.results[2].status = "thrown"
    /\ upload.results[3].speakers

\* The provider client is Ready: sendAudioChunk passes its guard.
Ready(s) == sendAudioChunkReady(websocket[s], isConnected[s], sessionStarted[s])

\* The provider client has reported a connect failure, was closed, got a
\* Termination message, or lost its transport to an error or a close.
Gone(s) ==
    \/ connect[s] = "rejected"
    \/ Stopped(s)
    \/ terminated[s]
    \/ ws[s] \in {"failed", "closed"}

\* C30: a provider client that reported a connect failure or left Ready
\* (close(), Termination, transport close or error) is not Ready, and no
\* step writes audio to its transport.
C30_LifecycleOnlyForward ==
    [][\A s \in Sessions :
          Gone(s) => /\ ~Ready(s)
                     /\ ~Ready(s)'
                     /\ wireAudio'[s] = wireAudio[s]]_vars

\* C31 as stated: after a Turn event with end_of_turn set was handled, the
\* current-partial text of the session is empty.
C31_FinalClearsCurrent ==
    \A s \in Sessions :
        last[s].turn = "final" => currentTurnText[s] = ""

\* C31 as amended: after a Turn event with end_of_turn set and a non-blank
\* transcript was handled, the current-partial text is empty; a Turn event
\* with end_of_turn set and a blank transcript leaves it as it was.
C31_NonBlankFinalClearsCurrent ==
    [][\A s \in Sessions :
          last'[s].turn = "final"
              => currentTurnText'[s] =
                   (IF last'[s].text \in Blank
                    THEN currentTurnText[s] ELSE "")]_vars

\* A partial and then a final Turn event reached the client: the final one
\* found the partial's text in the buffer and left it empty.
C31_Witness ==
    \E s \in Sessions :
        /\ last[s].turn = "final"
        /\ last[s].text \notin Blank
        /\ clientLog[s]["transcription"] = 2
        /\ Len(fullTranscript[s]) = 1
        /\ currentTurnText[s] = ""

C33_ReadyOnceAndFirst ==
    \A s \in Sessions :
        /\ clientLog[s]["ready"] <= 1
        /\ clientLog[s]["ready"] = 1 =>
              connect[s] = "resolved" /\ route[s] = "listening"
        /\ connect[s] = "rejected" => clientLog[s]["ready"] = 0
        /\ s \in sessions => connect[s] = "resolved"
        /\ (\/ clientLog[s]["transcription"] > 0
            \/ clientLog[s]["warning"] > 0
            \/ clientLog[s]["info"] > 0
            \/ started[s]
            \/ pauseState[s] # "never") => clientLog[s]["ready"] = 1

\* The client got ready, then a transcription and a warning, and its
\* start_recording was acknowledged.
C33_Witness ==
    \E s \in Sessions :
        /\ clientLog[s]["ready"] = 1
        /\ clientLog[s]["transcription"] >= 1
        /\ clientLog[s]["warning"] >= 1
        /\ started[s]

\* C34: when the provider transport failed while the connect attempt was
\* still in progress, no error event went unhandled, the process is alive,
\* and the client, unless it had left already, has one error message and was
\* closed by the server.
C34_ConnectErrorHandled ==
    \A s \in Sessions :
        (ws[s] = "failed" /\ connect[s] # "resolved") =>
            /\ ~crashed
            /\ "errorEvent" \notin unhandled
            /\ conn[s] \in {"closedByServer", "closedByClient"}
            /\ conn[s] = "closedByServer" => clientLog[s]["error"] = 1

\* C35: once a connect attempt has failed with the timeout and the route
\* handler has reported it and returned, the transport of that attempt is
\* not open.
C35_NoConnectionAfterTimeout ==
    \A s \in Sessions :
        (connect[s] = "rejected" /\ timer[s] = "fired"
           /\ route[s] = "returned") => ws[s] # "open"

\* C36: the client of a session receives at most one disconnection warning,
\* also when a provider Termination message is followed by the close of the
\* transport.
C36_AtMostOneDisconnectWarning ==
    \A s \in Sessions :
        (terminated[s] /\ ws[s] = "closed") => clientLog[s]["warning"] <= 1

\* C37: once the provider connection of a session is open and the route
\* handler has attached its listeners, the client has received the info
\* message announcing that real-time transcription is connected.
C37_ConnectedInfoDelivered ==
    \A s \in Sessions :
        (ws[s] = "open" /\ connect[s] = "resolved" /\ route[s] = "listening"
           /\ conn[s] = "open") => clientLog[s]["info"] >= 1

\* The statuses of the meetings schema a row can hold, in pipeline order.
StatusOrder ==
    <<"uploading", "transcribing", "transcription_complete", "completed">>

\* C38: the status of an uploaded meeting changes only to the next status of
\* uploading, transcribing, transcription_complete, completed, or from a
\* status that is neither completed nor failed to failed after a processing
\* step threw; it becomes completed only when the transcription row and the
\* AI-notes row are stored, and a completed or failed meeting keeps its
\* status for ever.
C38_StatusPipeline ==
    [][\A m \in MeetingIds :
         LET a == meetings[m].status
             b == meetings'[m].status
         IN  a # b =>
               /\ a \notin {"completed", "failed"}
               /\ \/ a = "none" /\ b = "uploading"
                  \/ \E i \in 1..3 : a = StatusOrder[i] /\ b = StatusOrder[i + 1]
                  \/ b = "failed" /\ a # "none" /\ processing[m] = "catch"
               /\ b = "completed" =>
                    meetings'[m].transcription /\ meetings'[m].aiNotes]_vars

C38_Witness ==
    /\ meetings[1].status = "completed"
    /\ processing[1] = "done"
    /\ meetings[2].status = "failed"
    /\ meetings[2].transcription
    /\ ~meetings[2].aiNotes
    /\ processing[2] = "done"

PollEnded == poll.pc \in {"returned", "thrown"}

====
